---- MODULE Spec2Model ----
(***************************************************************************)
(* Model of store_manager.py: a point-of-sale and inventory tracker that   *)
(* keeps a product catalog, a transaction log and a stock-change log in    *)
(* the three sheets of one workbook (inventory.xlsx).                      *)
(*                                                                         *)
(* Representation.                                                         *)
(*  - A text is a tuple of symbols: <<"a","b">> is "ab", <<>> is "".  A    *)
(*    field whose characters never matter (type, operator, note) is a      *)
(*    one-symbol tuple such as <<"sale">>.                                 *)
(*  - NaN is the blank cell pandas reads back from a sheet.  read_excel    *)
(*    also turns the texts of its default NA list ("NA", "nan", "null",    *)
(*    ...) into NaN, and, where no dtype is given, turns a column whose    *)
(*    cells all look like numbers into numbers ("07" becomes 7, written    *)
(*    here as the text "7").                                               *)
(*  - A price is a whole number of tenths of a yuan (2.5 is 25).           *)
(*  - log_id, txn_id and datetime are fresh values that no branch looks    *)
(*    at; they are left out of the rows.  Of the product columns the model *)
(*    keeps id, barcode, name, price and stock, and of the columns that    *)
(*    are not in COLUMN_MAP expiry_date, which load_products adds to the   *)
(*    frame and save_products does not write.                              *)
(*  - The variables products, transactions and stock_log hold the rows of  *)
(*    the three sheets as they are in the workbook; every handler reads    *)
(*    them with load_products / read_excel and writes them back whole.     *)
(*  - A sheet that cannot be read (the workbook is not a valid xlsx file,  *)
(*    or the sheet is not in it) is the value Unreadable; a workbook that  *)
(*    is not on disk has Missing for its three sheets.                     *)
(*  - lookup is the last call of a search function: its arguments and the  *)
(*    rows it returned.  callers holds the local variables and the         *)
(*    position of each of two sessions that run a handler step by step.    *)
(***************************************************************************)
EXTENDS Integers, Sequences, FiniteSets, TLC

VARIABLES products, transactions, stock_log, cart, nextId, RAPIDFUZZ_AVAILABLE,
          op, result, messages, writes, lookup, callers

vars == <<products, transactions, stock_log, cart, nextId, RAPIDFUZZ_AVAILABLE,
          op, result, messages, writes, lookup, callers>>

(***************************************************************************)
(* Bounds of the model.                                                    *)
(***************************************************************************)
MaxProducts == 3
MaxIds == 3
MaxCart == 2
MaxLog == 2
MaxStock == 50
MaxDebt == 20

(***************************************************************************)
(* Texts.                                                                  *)
(***************************************************************************)
NaN == <<"NaN">>

B1 == <<"1">>
B2 == <<"2">>
B3 == <<"3">>
NameW == <<"w">>
NameN == <<"n">>

UuidTable == <<"u1", "u2", "u3", "u4", "u5", "u6", "u7", "u8", "u9", "u10">>
uuid4(n) == <<UuidTable[n]>>

RECURSIVE lstrip(_)
lstrip(s) == IF s # <<>> /\ Head(s) = " " THEN lstrip(Tail(s)) ELSE s

RECURSIVE rstrip(_)
rstrip(s) == IF s # <<>> /\ s[Len(s)] = " " THEN rstrip(SubSeq(s, 1, Len(s) - 1)) ELSE s

strip(s) == rstrip(lstrip(s))

\* texts that read_excel takes for a missing value (keep_default_na)
NA_VALUES == {<<"N", "A">>, <<"n", "a", "n">>, <<"N", "a", "N">>, <<"n", "u", "l", "l">>,
              <<"N", "o", "n", "e">>}

sanitize(v) == IF v \in NA_VALUES THEN NaN ELSE v

Digits == {"0", "1", "2", "3", "4", "5", "6", "7", "8", "9"}

looks_numeric(v) == v # <<>> /\ \A i \in 1..Len(v) : v[i] \in Digits

RECURSIVE to_number(_)
to_number(v) == IF Len(v) > 1 /\ Head(v) = "0" THEN to_number(Tail(v)) ELSE v

\* type inference of read_excel on one column read without a dtype
infer_column(col) ==
    LET c == [i \in 1..Len(col) |-> sanitize(col[i])]
    IN IF \A i \in 1..Len(c) : c[i] = NaN \/ looks_numeric(c[i])
       THEN [i \in 1..Len(c) |-> IF c[i] = NaN THEN NaN ELSE to_number(c[i])]
       ELSE c

\* str(v) / Series.astype(str): a blank cell becomes the text "nan"
astype_str(v) == IF v = NaN THEN <<"n", "a", "n">> ELSE v

\* Series.fillna("")
fillna_empty(v) == IF v = NaN THEN <<>> ELSE v

lower_char(c) == CASE c = "A" -> "a" [] c = "N" -> "n" [] c = "W" -> "w" [] OTHER -> c
lower(s) == [i \in 1..Len(s) |-> lower_char(s[i])]

\* Series.str.contains(query, case=False): the query is compiled as a regular
\* expression (regex=True is the default).  Of the pattern syntax the model
\* has "." (any one character) and "(", which with no ")" to close it does
\* not compile (re.error); every other symbol stands for itself.
re_error(q) == \E i \in 1..Len(q) : q[i] = "("

str_contains(s, q) ==
    \E i \in 1..(Len(s) - Len(q) + 1) :
        \A j \in 1..Len(q) : q[j] = "." \/ lower_char(s[i + j - 1]) = lower_char(q[j])

\* DataFrame.head(n)
head(rows, n) == SubSeq(rows, 1, IF Len(rows) < n THEN Len(rows) ELSE n)

RECURSIVE SumSeq(_)
SumSeq(s) == IF s = <<>> THEN 0 ELSE Head(s) + SumSeq(Tail(s))

(***************************************************************************)
(* The workbook: writing a sheet and reading it back.                      *)
(***************************************************************************)
\* DataFrame.to_excel: an empty text (and None) is written as a blank cell
to_excel_cell(v) == IF v = <<>> THEN NaN ELSE v

to_excel_product(p) ==
    [id |-> to_excel_cell(p.id), barcode |-> to_excel_cell(p.barcode),
     name |-> to_excel_cell(p.name), price |-> p.price, stock |-> p.stock]

to_excel_products(df) == [i \in 1..Len(df) |-> to_excel_product(df[i])]

to_excel_log_row(r) ==
    [barcode |-> to_excel_cell(r.barcode), name |-> to_excel_cell(r.name),
     change |-> r.change, before_stock |-> r.before_stock, after_stock |-> r.after_stock,
     type |-> to_excel_cell(r.type), operator |-> to_excel_cell(r.operator),
     note |-> to_excel_cell(r.note)]

to_excel_log(log) == [i \in 1..Len(log) |-> to_excel_log_row(log[i])]

to_excel_tx_row(r) ==
    [items |-> r.items, total |-> r.total, paid |-> r.paid, change |-> r.change,
     operator |-> to_excel_cell(r.operator), note |-> to_excel_cell(r.note)]

to_excel_tx(tx) == [i \in 1..Len(tx) |-> to_excel_tx_row(tx[i])]

\* the workbook as one value
File(p, t, l) == [products |-> p, transactions |-> t, stock_log |-> l]

\* one ExcelWriter(mode="w") block: the whole workbook is replaced; writes
\* keeps which function wrote and how long it left the two logs
Written(by, f) ==
    [by |-> by, transactions |-> Len(f.transactions), stock_log |-> Len(f.stock_log)]

\* a sheet on which pd.read_excel raises, and the sheets of a workbook that
\* os.path.exists does not find
Unreadable == <<[unreadable |-> TRUE]>>
Missing == <<[missing |-> TRUE]>>

\* ensure_inventory_file: a workbook that is not there is created with the
\* sample products and two empty logs
sample ==
    << [id |-> uuid4(1), barcode |-> B1, name |-> NameW, price |-> 25, stock |-> 50],
       [id |-> uuid4(2), barcode |-> B2, name |-> NameN, price |-> 40, stock |-> 30] >>

ensure_inventory_file(f) ==
    IF f.products = Missing THEN File(to_excel_products(sample), <<>>, <<>>) ELSE f

\* pd.read_excel(INVENTORY_FILE, sheet_name=STOCK_LOG_SHEET), in its
\* try / except: the empty frame stands in for a sheet that cannot be read
read_excel_log(f) ==
    LET rows == IF f.stock_log \in {Unreadable, Missing} THEN <<>> ELSE f.stock_log
        col(name) == infer_column([i \in 1..Len(rows) |-> rows[i][name]])
    IN [i \in 1..Len(rows) |->
          [barcode |-> col("barcode")[i], name |-> col("name")[i],
           change |-> rows[i].change, before_stock |-> rows[i].before_stock,
           after_stock |-> rows[i].after_stock, type |-> col("type")[i],
           operator |-> col("operator")[i], note |-> col("note")[i]]]

\* pd.read_excel(INVENTORY_FILE, sheet_name=TRANSACTION_SHEET), in its
\* try / except
read_excel_tx(f) ==
    LET rows == IF f.transactions \in {Unreadable, Missing} THEN <<>> ELSE f.transactions
        col(name) == infer_column([i \in 1..Len(rows) |-> rows[i][name]])
    IN [i \in 1..Len(rows) |->
          [items |-> rows[i].items, total |-> rows[i].total, paid |-> rows[i].paid,
           change |-> rows[i].change, operator |-> col("operator")[i],
           note |-> col("note")[i]]]

\* load_products: the sheet is read with dtype=str; barcode and id blanks
\* become "", name is left as read; the sheet has no expiry_date column
\* (reindex(columns=CHINESE_HEADERS_ORDER) drops it on every save), so the
\* column is added with None
read_products_sheet(rows) ==
    [i \in 1..Len(rows) |->
        [id |-> fillna_empty(sanitize(rows[i].id)),
         barcode |-> fillna_empty(sanitize(rows[i].barcode)),
         name |-> sanitize(rows[i].name),
         price |-> rows[i].price,
         stock |-> rows[i].stock,
         expiry_date |-> NaN]]

\* a slip: a read that fails gives the sample catalog
load_products_sample_on_failure(f) ==
    IF ensure_inventory_file(f).products = Unreadable
    THEN read_products_sheet(to_excel_products(sample))
    ELSE read_products_sheet(ensure_inventory_file(f).products)

\* lines 103-145: ensure_inventory_file(), then the read in try / except,
\* which returns the empty frame when it fails
load_products(f) ==
    IF ensure_inventory_file(f).products = Unreadable
    THEN <<>>
    ELSE read_products_sheet(ensure_inventory_file(f).products)

\* a slip: a sheet that could not be read is left as it is by the write
save_products_keep_unread(f, df) ==
    File(to_excel_products(df),
         IF f.transactions = Unreadable THEN Unreadable ELSE to_excel_tx(read_excel_tx(f)),
         IF f.stock_log = Unreadable THEN Unreadable ELSE to_excel_log(read_excel_log(f)))

save_products(f, df) ==
    LET tx == read_excel_tx(f)
        log == read_excel_log(f)
    IN File(to_excel_products(df), to_excel_tx(tx), to_excel_log(log))

append_transaction(f, tx_record) ==
    LET tx == Append(read_excel_tx(f), tx_record)
        prod == load_products(f)
        log == read_excel_log(f)
    IN File(to_excel_products(prod), to_excel_tx(tx), to_excel_log(log))

append_stock_log(f, log_record) ==
    LET log == Append(read_excel_log(f), log_record)
        prod == load_products(f)
        tx == read_excel_tx(f)
    IN File(to_excel_products(prod), to_excel_tx(tx), to_excel_log(log))

(***************************************************************************)
(* Search utilities.                                                       *)
(***************************************************************************)
search_by_barcode(barcode, products_df) ==
    LET b == strip(astype_str(barcode))
    IN IF b = <<>> THEN <<>>
       ELSE SelectSeq(products_df, LAMBDA p : astype_str(fillna_empty(p.barcode)) = b)

\* process.extract(query, choices, scorer=fuzz.WRatio, limit): the scorer is a
\* library function; ranking is the order it puts the choices in
fuzzy_names(products_df, ranking, limit) ==
    LET choices == [i \in 1..Len(products_df) |-> astype_str(products_df[i].name)]
        n == IF Len(choices) < limit THEN Len(choices) ELSE limit
    IN {choices[ranking[k]] : k \in 1..n}

search_by_name(query, products_df, limit, ranking) ==
    LET q == strip(astype_str(query))
        subs == SelectSeq(products_df, LAMBDA p : str_contains(astype_str(p.name), q))
    IN IF Len(q) = 0 THEN <<>>
       ELSE IF Len(subs) >= 1 \/ ~RAPIDFUZZ_AVAILABLE THEN head(subs, limit)
       ELSE SelectSeq(products_df,
                      LAMBDA p : p.name \in fuzzy_names(products_df, ranking, limit))

\* the orders a scorer can put n choices in
Rankings(n) == {r \in [1..n -> 1..n] : \A i, j \in 1..n : i # j => r[i] # r[j]}

\* one order for each choice that can come first (all that limit=1 looks at)
TopRankings(n) == {[i \in 1..n |-> ((i + k - 2) % n) + 1] : k \in 1..n}

\* the orders that matter to search_by_name(query, load_products(f), 1): the
\* scorer is called only when no name contains the query
RankingsFor(query, f) ==
    LET df == load_products(f)
        q == strip(astype_str(query))
    IN IF /\ Len(q) > 0
          /\ RAPIDFUZZ_AVAILABLE
          /\ \A i \in 1..Len(df) : ~str_contains(astype_str(df[i].name), q)
       THEN TopRankings(Len(df))
       ELSE {[i \in 1..Len(df) |-> i]}

(***************************************************************************)
(* Inventory update.                                                       *)
(***************************************************************************)
\* df.at[i] on a DataFrame: .at takes a (row, column) pair, a row label alone
\* raises TypeError
df_at_row(df, i) == [raised |-> TRUE, row |-> df[i]]

\* line 262: return True, "ok", with f1 the workbook save_products left and
\* f2 the one append_stock_log left
stock_change_logged(f1, f2) ==
    [ok |-> TRUE, raised |-> FALSE, file |-> f2,
     writes |-> <<Written("save_products", f1), Written("append_stock_log", f2)>>]

\* lines 249-261: the log record is built (its name through df.at[i]) and
\* appended, in the workbook f1 that save_products left
log_stock_change(f1, row, barcode, delta, before, after, operator, typ, note) ==
    IF row.raised
    THEN [ok |-> FALSE, raised |-> TRUE, file |-> f1,
          writes |-> <<Written("save_products", f1)>>]
    ELSE stock_change_logged(f1,
            append_stock_log(f1,
                [barcode |-> astype_str(barcode), name |-> row.row.name,
                 change |-> delta, before_stock |-> before, after_stock |-> after,
                 type |-> typ, operator |-> operator, note |-> note]))

\* lines 244-262: the stock change on row i, once the barcode is found
apply_stock_change(f, df, i, barcode, delta, operator, typ, note) ==
    LET df2 == [df EXCEPT ![i].stock = df[i].stock + delta]
    IN log_stock_change(save_products(f, df2), df_at_row(df2, i), barcode, delta,
                        df[i].stock, df[i].stock + delta, operator, typ, note)

\* df.index[df["barcode"].fillna("").astype(str) == str(barcode)]: the
\* positions of the rows with the barcode, in order
RECURSIVE barcode_index_from(_, _, _)
barcode_index_from(df, barcode, from) ==
    IF from > Len(df) THEN <<>>
    ELSE IF astype_str(fillna_empty(df[from].barcode)) = astype_str(barcode)
    THEN <<from>> \o barcode_index_from(df, barcode, from + 1)
    ELSE barcode_index_from(df, barcode, from + 1)

barcode_index(df, barcode) == barcode_index_from(df, barcode, 1)

\* a slip: the first row is taken when no row has the barcode
update_stock_by_barcode_first_row(f, barcode, delta, operator, typ, note) ==
    LET df == load_products(f)
        idx == barcode_index(df, barcode)
    IN IF Len(df) = 0
       THEN [ok |-> FALSE, raised |-> FALSE, file |-> f, writes |-> <<>>]
       ELSE apply_stock_change(f, df, IF Len(idx) = 0 THEN 1 ELSE idx[1],
                               barcode, delta, operator, typ, note)

update_stock_by_barcode(f, barcode, delta, operator, typ, note) ==
    LET df == load_products(f)
        idx == barcode_index(df, barcode)
    IN IF Len(idx) = 0
       THEN [ok |-> FALSE, raised |-> FALSE, file |-> f, writes |-> <<>>]
       ELSE apply_stock_change(f, df, idx[1], barcode, delta, operator, typ, note)

(***************************************************************************)
(* Initial state: ensure_inventory_file has created the workbook with the  *)
(* two sample products and empty transaction and stock-log sheets; the     *)
(* session has an empty cart.                                              *)
(***************************************************************************)
\* no search function has been called yet
NoLookup == [query |-> <<>>, limit |-> 0, rows |-> <<>>]

\* the two sessions, and a session that runs no handler
Callers == {1, 2}
IdleCaller ==
    [pc |-> "idle", barcode |-> <<>>, stock2 |-> 0, before_stock |-> 0,
     df |-> <<>>, tx |-> <<>>, log |-> <<>>]

Init ==
    /\ products = to_excel_products(sample)
    /\ transactions = <<>>
    /\ stock_log = <<>>
    /\ cart = <<>>
    /\ nextId = 3
    /\ RAPIDFUZZ_AVAILABLE \in BOOLEAN
    /\ op = "init"
    /\ result = "none"
    /\ messages = <<>>
    /\ writes = <<>>
    /\ lookup = NoLookup
    /\ callers = [c \in Callers |-> IdleCaller]

CurrentFile == File(products, transactions, stock_log)

\* the workbook after the handler's last write
SetFile(f) ==
    /\ products' = f.products
    /\ transactions' = f.transactions
    /\ stock_log' = f.stock_log

\* model bounds on what a step may produce
WithinBounds(f) ==
    /\ Len(f.products) <= MaxProducts
    /\ Len(f.stock_log) <= MaxLog
    /\ Len(f.transactions) <= MaxLog
    /\ \A i \in 1..Len(f.products) : f.products[i].stock \in (0 - MaxDebt)..MaxStock

(***************************************************************************)
(* Inputs.                                                                 *)
(***************************************************************************)
ScanInputs == {B1, <<"N">>, <<"z">>}
Quantities == {50}
Deltas == {-50, 0, 50}
BarcodeInputs == {B1, B2, B3}
FormBarcodes == {<<>>, <<" ", "2">>}
FormNames == {<<>>, <<"a">>}
FormActions == {"in", "out", "adjust"}
NewBarcodes == {<<>>, <<" ", "1">>}
NewNames == {<<"N", "A", " ">>}
NewStocks == {0, 50}
NewPrices == {10}
EditBarcodes == {B1, <<"1", " ">>}
DeleteBarcodes == {B1, B2, <<"1", " ">>}
EditNames == {NameW}
EditPrices == {25}
EditStocks == {0}
PaidAmounts == {0, 2000}
Operators == {<<"warehouse">>}
Notes == {<<"recount">>}
Types == {<<"in">>}

(***************************************************************************)
(* POS: add to cart (lines 290-314).                                       *)
(***************************************************************************)
cart_item(row, qty) ==
    [id |-> row.id, barcode |-> astype_str(row.barcode), name |-> row.name,
     price |-> row.price, qty |-> qty, subtotal |-> row.price * qty]

AddToCart(barcode_input, qty, ranking) ==
    /\ strip(barcode_input) # <<>>
    /\ Len(cart) < MaxCart
    /\ LET df == load_products(CurrentFile)
           df_bar == search_by_barcode(barcode_input, df)
           df_name == search_by_name(barcode_input, df, 1, ranking)
           found == IF Len(df_bar) > 0 THEN df_bar ELSE df_name
       IN IF Len(found) > 0
          THEN /\ cart' = Append(cart, cart_item(found[1], qty))
               /\ result' = "added"
          ELSE /\ cart' = cart
               /\ result' = "not_found"
    /\ op' = "add_to_cart"
    /\ messages' = <<>>
    /\ writes' = <<>>
    /\ UNCHANGED <<products, transactions, stock_log, nextId, RAPIDFUZZ_AVAILABLE, lookup, callers>>

ClearCart ==
    /\ cart' = <<>>
    /\ op' = "clear_cart"
    /\ result' = "none"
    /\ messages' = <<>>
    /\ writes' = <<>>
    /\ UNCHANGED <<products, transactions, stock_log, nextId, RAPIDFUZZ_AVAILABLE, lookup, callers>>

(***************************************************************************)
(* POS: checkout (lines 317-347).                                          *)
(***************************************************************************)
NotFoundMsg == <<"not found">>

RECURSIVE checkout_loop(_, _, _, _, _, _)

\* a slip: the loop is left at the first line that fails
checkout_line_break(r, items, k, success, msgs, ws) ==
    IF r.raised
    THEN [file |-> r.file, success |-> success, messages |-> msgs,
          raised |-> TRUE, writes |-> ws \o r.writes]
    ELSE IF ~r.ok
    THEN [file |-> r.file, success |-> FALSE,
          messages |-> Append(msgs, [name |-> items[k].name, msg |-> NotFoundMsg]),
          raised |-> FALSE, writes |-> ws \o r.writes]
    ELSE checkout_loop(r.file, items, k + 1, success, msgs, ws \o r.writes)

\* lines 329-331: what the loop does with r, the outcome of
\* update_stock_by_barcode for line k; an exception raised by the call ends
\* the handler
checkout_line(r, items, k, success, msgs, ws) ==
    IF r.raised
    THEN [file |-> r.file, success |-> success, messages |-> msgs,
          raised |-> TRUE, writes |-> ws \o r.writes]
    ELSE IF ~r.ok
    THEN checkout_loop(r.file, items, k + 1, FALSE,
                       Append(msgs, [name |-> items[k].name, msg |-> NotFoundMsg]),
                       ws \o r.writes)
    ELSE checkout_loop(r.file, items, k + 1, success, msgs, ws \o r.writes)

\* the for loop over the cart (lines 327-331)
checkout_loop(f, items, k, success, msgs, ws) ==
    IF k > Len(items)
    THEN [file |-> f, success |-> success, messages |-> msgs, raised |-> FALSE, writes |-> ws]
    ELSE checkout_line(update_stock_by_barcode(f, items[k].barcode, 0 - items[k].qty,
                                               <<"cashier">>, <<"sale">>, <<"POS checkout">>),
                       items, k, success, msgs, ws)

cart_total(items) == SumSeq([i \in 1..Len(items) |-> items[i].subtotal])

\* lines 333-341: the transaction record
txn(items, paid) ==
    [items |-> items, total |-> cart_total(items), paid |-> paid,
     change |-> paid - cart_total(items), operator |-> <<"cashier">>, note |-> <<>>]

Checkout(paid) ==
    /\ Len(cart) > 0
    /\ \E l \in {checkout_loop(CurrentFile, cart, 1, TRUE, <<>>, <<>>)} :
          IF l.raised
          THEN /\ SetFile(l.file)
               /\ WithinBounds(l.file)
               /\ cart' = cart
               /\ result' = "raised"
               /\ messages' = <<>>
               /\ writes' = l.writes
          ELSE IF l.success
          THEN \E f2 \in {append_transaction(l.file, txn(cart, paid))} :
               /\ SetFile(f2)
               /\ WithinBounds(f2)
               /\ cart' = <<>>
               /\ result' = "completed"
               /\ messages' = <<>>
               /\ writes' = Append(l.writes, Written("append_transaction", f2))
          ELSE /\ SetFile(l.file)
               /\ WithinBounds(l.file)
               /\ cart' = cart
               /\ result' = "partial_failure"
               /\ messages' = l.messages
               /\ writes' = l.writes
    /\ op' = "checkout"
    /\ UNCHANGED <<nextId, RAPIDFUZZ_AVAILABLE, lookup, callers>>

(***************************************************************************)
(* Stock mutator called on its own, and from the warehouse form            *)
(* (lines 405-429).                                                        *)
(***************************************************************************)
Outcome(r) == IF r.raised THEN "raised" ELSE IF r.ok THEN "ok" ELSE "not_found"

AdjustStock(barcode, delta, operator, typ, note) ==
    /\ \E r \in {update_stock_by_barcode(CurrentFile, barcode, delta, operator, typ, note)} :
          /\ SetFile(r.file)
          /\ WithinBounds(r.file)
          /\ result' = Outcome(r)
          /\ writes' = r.writes
    /\ op' = "adjust_stock"
    /\ messages' = <<>>
    /\ UNCHANGED <<cart, nextId, RAPIDFUZZ_AVAILABLE, lookup, callers>>

StockForm(barcode, name, qty, action, operator, note, ranking) ==
    /\ LET df == load_products(CurrentFile)
           by_bar == IF strip(barcode) # <<>> THEN search_by_barcode(barcode, df) ELSE <<>>
           df_name == search_by_name(name, df, 1, ranking)
           df_bar == IF Len(by_bar) = 0 /\ strip(name) # <<>> /\ Len(df_name) > 0
                     THEN df_name ELSE by_bar
           delta == IF action = "out" THEN 0 - qty ELSE qty
       IN IF Len(df_bar) = 0
          THEN /\ UNCHANGED <<products, transactions, stock_log>>
               /\ result' = "no_product"
               /\ writes' = <<>>
          ELSE \E r \in {update_stock_by_barcode(CurrentFile, astype_str(df_bar[1].barcode),
                                                 delta, operator, <<action>>, note)} :
               /\ SetFile(r.file)
               /\ WithinBounds(r.file)
               /\ result' = Outcome(r)
               /\ writes' = r.writes
    /\ op' = "stock_form"
    /\ messages' = <<>>
    /\ UNCHANGED <<cart, nextId, RAPIDFUZZ_AVAILABLE, lookup, callers>>

(***************************************************************************)
(* Product maintenance: add (lines 452-487), edit and delete (511-548).    *)
(***************************************************************************)
\* a slip: the entry takes the new stock for the stock before
initial_log_from_stock(new) ==
    [barcode |-> new.barcode, name |-> new.name, change |-> new.stock,
     before_stock |-> new.stock, after_stock |-> new.stock, type |-> <<"in_initial">>,
     operator |-> <<"system">>, note |-> <<"initial stock">>]

initial_log(new) ==
    [barcode |-> new.barcode, name |-> new.name, change |-> new.stock,
     before_stock |-> 0, after_stock |-> new.stock, type |-> <<"in_initial">>,
     operator |-> <<"system">>, note |-> <<"initial stock">>]

AddProduct(name, barcode, price, stock) ==
    /\ nextId <= MaxIds
    /\ LET new == [id |-> uuid4(nextId), barcode |-> strip(astype_str(barcode)),
                   name |-> strip(name), price |-> price, stock |-> stock,
                   expiry_date |-> <<>>]
       IN \E f1 \in {save_products(CurrentFile, Append(load_products(CurrentFile), new))} :
          IF stock > 0 /\ new.barcode # <<>>
          THEN \E f2 \in {append_stock_log(f1, initial_log(new))} :
               /\ SetFile(f2)
               /\ WithinBounds(f2)
               /\ writes' = <<Written("save_products", f1), Written("append_stock_log", f2)>>
          ELSE /\ SetFile(f1)
               /\ WithinBounds(f1)
               /\ writes' = <<Written("save_products", f1)>>
    /\ nextId' = nextId + 1
    /\ op' = "add_product"
    /\ result' = "ok"
    /\ messages' = <<>>
    /\ UNCHANGED <<cart, RAPIDFUZZ_AVAILABLE, lookup, callers>>

\* a slip: the sign of the change is turned round
manual_log_negated(e_barcode, name2, before_stock, stock2) ==
    [barcode |-> astype_str(e_barcode), name |-> name2, change |-> before_stock - stock2,
     before_stock |-> before_stock, after_stock |-> stock2, type |-> <<"adjust_manual">>,
     operator |-> <<"stock edit">>, note |-> <<"manual stock change">>]

\* a slip: the entry is typed as a warehouse adjustment
manual_log_as_adjust(e_barcode, name2, before_stock, stock2) ==
    [barcode |-> astype_str(e_barcode), name |-> name2, change |-> stock2 - before_stock,
     before_stock |-> before_stock, after_stock |-> stock2, type |-> <<"adjust">>,
     operator |-> <<"stock edit">>, note |-> <<"manual stock change">>]

manual_log(e_barcode, name2, before_stock, stock2) ==
    [barcode |-> astype_str(e_barcode), name |-> name2, change |-> stock2 - before_stock,
     before_stock |-> before_stock, after_stock |-> stock2, type |-> <<"adjust_manual">>,
     operator |-> <<"stock edit">>, note |-> <<"manual stock change">>]

\* the form is shown only for a barcode that search_by_barcode finds (494-497)
EditFormShown(e_barcode) ==
    /\ strip(e_barcode) # <<>>
    /\ Len(search_by_barcode(e_barcode, load_products(CurrentFile))) > 0

EditSave(e_barcode, name2, price2, stock2) ==
    /\ EditFormShown(e_barcode)
    /\ LET df_all == load_products(CurrentFile)
           idx == barcode_index(df_all, e_barcode)
       IN IF Len(idx) > 0
          THEN LET i == idx[1]
                   before_stock == df_all[i].stock
                   df2 == [df_all EXCEPT ![i].name = name2, ![i].price = price2,
                                         ![i].stock = stock2]
               IN /\ result' = "ok"
                  /\ \E f1 \in {save_products(CurrentFile, df2)} :
                     IF before_stock # stock2
                     THEN \E f2 \in {append_stock_log(f1,
                                         manual_log(e_barcode, name2, before_stock, stock2))} :
                          /\ SetFile(f2)
                          /\ WithinBounds(f2)
                          /\ writes' = <<Written("save_products", f1),
                                         Written("append_stock_log", f2)>>
                     ELSE /\ SetFile(f1)
                          /\ WithinBounds(f1)
                          /\ writes' = <<Written("save_products", f1)>>
          ELSE /\ UNCHANGED <<products, transactions, stock_log>>
               /\ result' = "not_found"
               /\ writes' = <<>>
    /\ op' = "edit_save"
    /\ messages' = <<>>
    /\ UNCHANGED <<cart, nextId, RAPIDFUZZ_AVAILABLE, lookup, callers>>

\* a slip: only the first row with the barcode is taken out
without_first_barcode(df_all, e_barcode) ==
    LET idx == barcode_index(df_all, e_barcode)
    IN IF Len(idx) = 0 THEN df_all
       ELSE SubSeq(df_all, 1, idx[1] - 1) \o SubSeq(df_all, idx[1] + 1, Len(df_all))

\* line 546: df_all[df_all["barcode"].fillna("").astype(str) != str(e_barcode)]
without_barcode(df_all, e_barcode) ==
    SelectSeq(df_all, LAMBDA p : astype_str(fillna_empty(p.barcode)) # astype_str(e_barcode))

EditDelete(e_barcode) ==
    /\ EditFormShown(e_barcode)
    /\ LET df_all == load_products(CurrentFile)
           kept == without_barcode(df_all, e_barcode)
       IN \E f1 \in {save_products(CurrentFile, kept)} :
          /\ SetFile(f1)
          /\ writes' = <<Written("save_products", f1)>>
    /\ op' = "edit_delete"
    /\ result' = "ok"
    /\ messages' = <<>>
    /\ UNCHANGED <<cart, nextId, RAPIDFUZZ_AVAILABLE, lookup, callers>>

Next ==
    \/ \E t \in ScanInputs, q \in Quantities :
          \E r \in RankingsFor(t, CurrentFile) : AddToCart(t, q, r)
    \/ ClearCart
    \/ \E paid \in PaidAmounts : Checkout(paid)
    \/ \E b \in BarcodeInputs, d \in Deltas, o \in Operators, t \in Types, n \in Notes :
          AdjustStock(b, d, o, t, n)
    \/ \E b \in FormBarcodes, nm \in FormNames, q \in Quantities, a \in FormActions,
          o \in Operators, n \in Notes :
          \E r \in RankingsFor(nm, CurrentFile) : StockForm(b, nm, q, a, o, n, r)
    \/ \E nm \in NewNames, b \in NewBarcodes, p \in NewPrices, s \in NewStocks :
          AddProduct(nm, b, p, s)
    \/ \E b \in EditBarcodes, nm \in EditNames, p \in EditPrices, s \in EditStocks :
          EditSave(b, nm, p, s)
    \/ \E b \in DeleteBarcodes : EditDelete(b)

Spec == Init /\ [][Next]_vars

(***************************************************************************)
(* The search functions called on their own (lines 210-233), on catalogs   *)
(* that the handlers can leave in the workbook.                            *)
(***************************************************************************)
SearchCatalogs ==
    { <<>>,
      sample,
      << [id |-> uuid4(1), barcode |-> B1, name |-> NameW, price |-> 25, stock |-> 50],
         [id |-> uuid4(2), barcode |-> B2, name |-> NameW, price |-> 40, stock |-> 30] >>,
      << [id |-> uuid4(1), barcode |-> B1, name |-> NameW, price |-> 25, stock |-> 50],
         [id |-> uuid4(2), barcode |-> B2, name |-> NameN, price |-> 40, stock |-> 30],
         [id |-> uuid4(3), barcode |-> B3, name |-> NameW, price |-> 10, stock |-> 0] >>,
      << [id |-> uuid4(1), barcode |-> B1, name |-> <<>>, price |-> 25, stock |-> 50],
         [id |-> uuid4(2), barcode |-> <<>>, name |-> <<"w", "n">>, price |-> 40, stock |-> 30] >> }

SearchQueries == {<<>>, <<"w">>, <<" ", "W">>, <<"z">>, <<"n">>, <<".">>, <<"(">>, <<"1">>}
SearchLimits == {1, 2}

InitSearch ==
    /\ products \in {to_excel_products(c) : c \in SearchCatalogs}
    /\ transactions = <<>>
    /\ stock_log = <<>>
    /\ cart = <<>>
    /\ nextId = 4
    /\ RAPIDFUZZ_AVAILABLE \in BOOLEAN
    /\ op = "init"
    /\ result = "none"
    /\ messages = <<>>
    /\ writes = <<>>
    /\ lookup = NoLookup
    /\ callers = [c \in Callers |-> IdleCaller]

\* search_by_name(query, load_products(), limit); the call raises when the
\* query does not compile as a pattern
SearchByName(query, limit, ranking) ==
    /\ IF Len(strip(astype_str(query))) > 0 /\ re_error(strip(astype_str(query)))
       THEN /\ result' = "raised"
            /\ lookup' = [query |-> query, limit |-> limit, rows |-> <<>>]
       ELSE /\ result' = "ok"
            /\ lookup' = [query |-> query, limit |-> limit,
                          rows |-> search_by_name(query, load_products(CurrentFile),
                                                  limit, ranking)]
    /\ op' = "search_by_name"
    /\ UNCHANGED <<products, transactions, stock_log, cart, nextId, RAPIDFUZZ_AVAILABLE,
                   messages, writes, callers>>

\* search_by_barcode(barcode, load_products())
SearchByBarcode(barcode) ==
    /\ lookup' = [query |-> barcode, limit |-> 0,
                  rows |-> search_by_barcode(barcode, load_products(CurrentFile))]
    /\ op' = "search_by_barcode"
    /\ result' = "ok"
    /\ UNCHANGED <<products, transactions, stock_log, cart, nextId, RAPIDFUZZ_AVAILABLE,
                   messages, writes, callers>>

SearchNext ==
    \/ \E q \in SearchQueries, l \in SearchLimits :
          \E r \in Rankings(Len(products)) : SearchByName(q, l, r)
    \/ \E b \in SearchQueries : SearchByBarcode(b)

SpecSearch == InitSearch /\ [][SearchNext]_vars

(***************************************************************************)
(* The persistence functions called on their own (lines 147-205).          *)
(***************************************************************************)
StoreCatalogs ==
    { <<>>,
      sample,
      << [id |-> uuid4(1), barcode |-> <<"0", "7">>, name |-> <<"N", "A">>,
          price |-> 10, stock |-> 0] >>,
      << [id |-> uuid4(1), barcode |-> B3, name |-> NameN, price |-> 10, stock |-> 5,
          expiry_date |-> <<"2027">>] >> }

StoreTxRecords ==
    { [items |-> <<cart_item(sample[1], 2)>>, total |-> 50, paid |-> 100, change |-> 50,
       operator |-> <<"cashier">>, note |-> <<>>] }

StoreLogRecords ==
    { [barcode |-> B1, name |-> NameW, change |-> -2, before_stock |-> 50,
       after_stock |-> 48, type |-> <<"sale">>, operator |-> <<"cashier">>,
       note |-> <<"POS checkout">>],
      [barcode |-> <<"0", "7">>, name |-> <<"N", "A">>, change |-> 5, before_stock |-> 0,
       after_stock |-> 5, type |-> <<"in">>, operator |-> <<"warehouse">>, note |-> <<>>] }

StoreCall(by, f) ==
    /\ SetFile(f)
    /\ WithinBounds(f)
    /\ op' = by
    /\ result' = "ok"
    /\ messages' = <<>>
    /\ writes' = <<Written(by, f)>>
    /\ UNCHANGED <<cart, nextId, RAPIDFUZZ_AVAILABLE, lookup, callers>>

SaveProducts(df) == StoreCall("save_products", save_products(CurrentFile, df))

AppendTransaction(tx_record) ==
    StoreCall("append_transaction", append_transaction(CurrentFile, tx_record))

AppendStockLog(log_record) ==
    StoreCall("append_stock_log", append_stock_log(CurrentFile, log_record))

StoreNext ==
    \/ \E df \in StoreCatalogs : SaveProducts(df)
    \/ \E r \in StoreTxRecords : AppendTransaction(r)
    \/ \E r \in StoreLogRecords : AppendStockLog(r)

SpecStore == Init /\ [][StoreNext]_vars

(***************************************************************************)
(* The persistence functions on a workbook that something outside the      *)
(* program has damaged or removed.                                         *)
(***************************************************************************)
Damages == {"corrupt", "no_transactions", "no_stock_log", "missing"}

\* the workbook after the damage
Damaged(kind) ==
    CASE kind = "corrupt" -> File(Unreadable, Unreadable, Unreadable)
      [] kind = "no_transactions" -> File(products, Unreadable, stock_log)
      [] kind = "no_stock_log" -> File(products, transactions, Unreadable)
      [] kind = "missing" -> File(Missing, Missing, Missing)

Damage(kind) ==
    /\ products \notin {Unreadable, Missing}
    /\ SetFile(Damaged(kind))
    /\ op' = "damage"
    /\ result' = kind
    /\ messages' = <<>>
    /\ writes' = <<>>
    /\ UNCHANGED <<cart, nextId, RAPIDFUZZ_AVAILABLE, lookup, callers>>

\* load_products() called on its own; ensure_inventory_file writes the
\* workbook when it is not there
LoadProducts ==
    /\ lookup' = [query |-> <<>>, limit |-> 0, rows |-> load_products(CurrentFile)]
    /\ SetFile(ensure_inventory_file(CurrentFile))
    /\ op' = "load_products"
    /\ result' = "ok"
    /\ messages' = <<>>
    /\ writes' = <<>>
    /\ UNCHANGED <<cart, nextId, RAPIDFUZZ_AVAILABLE, callers>>

FaultNext ==
    \/ \E kind \in Damages : Damage(kind)
    \/ LoadProducts
    \/ \E df \in StoreCatalogs : SaveProducts(df)
    \/ \E r \in StoreTxRecords : AppendTransaction(r)
    \/ \E r \in StoreLogRecords : AppendStockLog(r)

SpecFault == Init /\ [][FaultNext]_vars

(***************************************************************************)
(* Two sessions that run the save branch of the edit form (lines 511-543)  *)
(* at the same time.  Each read_excel and each ExcelWriter block is one    *)
(* step; nothing in the code orders the steps of one session against the   *)
(* steps of the other.                                                     *)
(***************************************************************************)
RaceBarcodes == {B1, B2}
RaceStocks == {0, 5}

\* a slip: the write keeps the rows the workbook holds now, and replaces only
\* the row of the session's own barcode
merged_workbook(f, local) ==
    File([i \in 1..Len(local.df) |->
             IF i <= Len(f.products) /\ local.df[i].barcode # local.barcode
             THEN f.products[i] ELSE to_excel_product(local.df[i])],
         to_excel_tx(local.tx), to_excel_log(local.log))

\* the ExcelWriter(mode="w") block at the end of save_products and of
\* append_stock_log: the three frames the session holds replace the workbook
\* f, of which nothing is kept
written_workbook(f, local) ==
    File(to_excel_products(local.df), to_excel_tx(local.tx), to_excel_log(local.log))

RaceStep(c, local) ==
    /\ callers' = [callers EXCEPT ![c] = local]
    /\ op' = "race"
    /\ result' = "none"
    /\ messages' = <<>>
    /\ writes' = <<>>
    /\ UNCHANGED <<cart, nextId, RAPIDFUZZ_AVAILABLE, lookup>>

\* lines 512-524: df_all = load_products(), the row is found and changed
RaceLoad(c, e_barcode, stock2) ==
    /\ callers[c].pc = "idle"
    /\ LET df_all == load_products(CurrentFile)
           idx == barcode_index(df_all, e_barcode)
       IN IF Len(idx) > 0
          THEN RaceStep(c, [callers[c] EXCEPT
                              !.pc = "save_read_tx", !.barcode = e_barcode,
                              !.stock2 = stock2, !.before_stock = df_all[idx[1]].stock,
                              !.df = [df_all EXCEPT ![idx[1]].stock = stock2]])
          ELSE RaceStep(c, [callers[c] EXCEPT !.pc = "not_found"])
    /\ UNCHANGED <<products, transactions, stock_log>>

\* save_products, lines 155-162: the two logs are read
RaceSaveRead(c) ==
    /\ callers[c].pc \in {"save_read_tx", "save_read_log"}
    /\ IF callers[c].pc = "save_read_tx"
       THEN RaceStep(c, [callers[c] EXCEPT !.pc = "save_read_log",
                                           !.tx = read_excel_tx(CurrentFile)])
       ELSE RaceStep(c, [callers[c] EXCEPT !.pc = "save_write",
                                           !.log = read_excel_log(CurrentFile)])
    /\ UNCHANGED <<products, transactions, stock_log>>

\* save_products, lines 164-167, and line 527: the log entry is due only
\* when the stock has changed
RaceSaveWrite(c) ==
    /\ callers[c].pc = "save_write"
    /\ SetFile(written_workbook(CurrentFile, callers[c]))
    /\ RaceStep(c, [callers[c] EXCEPT
                       !.pc = IF callers[c].before_stock # callers[c].stock2
                              THEN "log_read_log" ELSE "done"])

\* append_stock_log, lines 191-200: the log is read and the entry added, the
\* catalog is loaded, the transactions are read
RaceLogRead(c) ==
    /\ callers[c].pc \in {"log_read_log", "log_load", "log_read_tx"}
    /\ CASE callers[c].pc = "log_read_log" ->
               RaceStep(c, [callers[c] EXCEPT
                              !.pc = "log_load",
                              !.log = Append(read_excel_log(CurrentFile),
                                             manual_log(callers[c].barcode,
                                                        callers[c].df[barcode_index(callers[c].df, callers[c].barcode)[1]].name,
                                                        callers[c].before_stock,
                                                        callers[c].stock2))])
         [] callers[c].pc = "log_load" ->
               RaceStep(c, [callers[c] EXCEPT !.pc = "log_read_tx",
                                              !.df = load_products(CurrentFile)])
         [] callers[c].pc = "log_read_tx" ->
               RaceStep(c, [callers[c] EXCEPT !.pc = "log_write",
                                              !.tx = read_excel_tx(CurrentFile)])
    /\ UNCHANGED <<products, transactions, stock_log>>

\* append_stock_log, lines 202-205
RaceLogWrite(c) ==
    /\ callers[c].pc = "log_write"
    /\ SetFile(written_workbook(CurrentFile, callers[c]))
    /\ RaceStep(c, [callers[c] EXCEPT !.pc = "done"])

RaceNext ==
    \/ \E c \in Callers, b \in RaceBarcodes, s \in RaceStocks : RaceLoad(c, b, s)
    \/ \E c \in Callers : RaceSaveRead(c)
    \/ \E c \in Callers : RaceSaveWrite(c)
    \/ \E c \in Callers : RaceLogRead(c)
    \/ \E c \in Callers : RaceLogWrite(c)

SpecRace == Init /\ [][RaceNext]_vars

(***************************************************************************)
(* The persistence functions when a read inside them fails: the workbook   *)
(* holds its tables, and the function sees Damaged(kind) of it.            *)
(***************************************************************************)
ReadFaults == {"corrupt", "no_transactions", "no_stock_log"}

\* writes records what the workbook held when the function was called, then
\* what the function wrote
FaultyCall(by, kind, f) ==
    /\ SetFile(f)
    /\ WithinBounds(f)
    /\ op' = by
    /\ result' = kind
    /\ messages' = <<>>
    /\ writes' = <<Written("held", CurrentFile), Written(by, f)>>
    /\ UNCHANGED <<cart, nextId, RAPIDFUZZ_AVAILABLE, lookup, callers>>

FaultySaveProducts(kind, df) ==
    FaultyCall("save_products", kind, save_products(Damaged(kind), df))

FaultyAppendTransaction(kind, tx_record) ==
    FaultyCall("append_transaction", kind, append_transaction(Damaged(kind), tx_record))

FaultyAppendStockLog(kind, log_record) ==
    FaultyCall("append_stock_log", kind, append_stock_log(Damaged(kind), log_record))

ReadFaultNext ==
    \/ \E df \in StoreCatalogs : SaveProducts(df)
    \/ \E r \in StoreTxRecords : AppendTransaction(r)
    \/ \E r \in StoreLogRecords : AppendStockLog(r)
    \/ \E kind \in ReadFaults, df \in StoreCatalogs : FaultySaveProducts(kind, df)
    \/ \E kind \in ReadFaults, r \in StoreTxRecords : FaultyAppendTransaction(kind, r)
    \/ \E kind \in ReadFaults, r \in StoreLogRecords : FaultyAppendStockLog(kind, r)

SpecReadFault == Init /\ [][ReadFaultNext]_vars

(***************************************************************************)
(* The POS page on its own, with quantities small enough for the same cart *)
(* to be checked out more than once; a product is deleted on the edit page *)
(* while it is in the cart.                                                *)
(***************************************************************************)
PosScans == {B1, B2}
PosQuantities == {10, 20}
PosPaid == {0}

PosNext ==
    \/ \E t \in PosScans, q \in PosQuantities :
          \E r \in RankingsFor(t, CurrentFile) : AddToCart(t, q, r)
    \/ ClearCart
    \/ \E paid \in PosPaid : Checkout(paid)
    \/ \E b \in PosScans : EditDelete(b)

SpecPos == Init /\ [][PosNext]_vars

(***************************************************************************)
(* Properties.                                                             *)
(***************************************************************************)
NextFile == File(products', transactions', stock_log')

Present(barcode, f) == Len(barcode_index(load_products(f), barcode)) > 0

\* stock of the row that update_stock_by_barcode works on
StockOf(f, barcode) == load_products(f)[barcode_index(load_products(f), barcode)[1]].stock

IsPrefix(a, b) == Len(a) <= Len(b) /\ SubSeq(b, 1, Len(a)) = a

FailingLines(items, f) == {k \in 1..Len(items) : ~Present(items[k].barcode, f)}

\* C1: in every reachable state every stock-log entry has
\* after_stock = before_stock + change.
C1_LogEntriesBalance ==
    \A i \in 1..Len(stock_log) :
        stock_log[i].after_stock = stock_log[i].before_stock + stock_log[i].change

\* a log that holds an addProduct entry and an updateProduct entry
C1_Witness ==
    /\ \E i \in 1..Len(stock_log) :
          stock_log[i].type = <<"in_initial">> /\ stock_log[i].change > 0
    /\ \E i \in 1..Len(stock_log) :
          stock_log[i].type = <<"adjust_manual">> /\ stock_log[i].change # 0

\* C2 as stated: in a checkout, no line after the first failing line has its
\* stock adjusted (lines whose barcode an earlier line also has are left aside).
C2_StopsAtFirstFailure ==
    [][op' = "checkout" =>
        \A i \in FailingLines(cart, CurrentFile) :
            (\A h \in 1..(i - 1) : h \notin FailingLines(cart, CurrentFile)) =>
                \A j \in (i + 1)..Len(cart) :
                    (/\ Present(cart[j].barcode, CurrentFile)
                     /\ \A h \in 1..(i - 1) : cart[h].barcode # cart[j].barcode)
                    => StockOf(NextFile, cart[j].barcode) = StockOf(CurrentFile, cart[j].barcode)
     ]_vars

\* C2 amended: a failing line does not stop the checkout; when the lines before
\* line j all fail and line j's barcode is in the catalog, line j's stock
\* decrement is applied and persisted (and no transaction is appended).
C2_FailureDoesNotStop ==
    [][op' = "checkout" =>
        \A j \in 2..Len(cart) :
            (/\ \A h \in 1..(j - 1) : h \in FailingLines(cart, CurrentFile)
             /\ Present(cart[j].barcode, CurrentFile))
            => /\ StockOf(NextFile, cart[j].barcode)
                    = StockOf(CurrentFile, cart[j].barcode) - cart[j].qty
               /\ transactions' = transactions
     ]_vars

\* a checkout has run on a cart whose first line fails and whose second line
\* is in the catalog
C2_Witness ==
    /\ op = "checkout"
    /\ Len(cart) = 2
    /\ ~Present(cart[1].barcode, CurrentFile)
    /\ Present(cart[2].barcode, CurrentFile)
    /\ Len(writes) > 0

\* C3: when at least one line fails, no transaction is appended, the cart is
\* kept, every line that is in the catalog has its sale entry in the stock log,
\* and the failure list has one message per failing line.
C3_PartialFailure ==
    [][(op' = "checkout" /\ FailingLines(cart, CurrentFile) # {}) =>
        /\ transactions' = transactions
        /\ cart' = cart
        /\ Len(stock_log') = Len(stock_log) + Len(cart)
                                - Cardinality(FailingLines(cart, CurrentFile))
        /\ Len(messages') = Cardinality(FailingLines(cart, CurrentFile))
     ]_vars

\* C4: when every line's barcode is in the catalog, the stock log gains one
\* sale entry per line, in cart order, with change = -qty; then one transaction
\* is appended, as the last write, and the cart is cleared.
C4_CheckoutAllPresent ==
    [][(op' = "checkout" /\ FailingLines(cart, CurrentFile) = {}) =>
        /\ Len(stock_log') = Len(stock_log) + Len(cart)
        /\ \A k \in 1..Len(cart) :
              LET e == stock_log'[Len(stock_log) + k]
              IN e.type = <<"sale">> /\ e.change = 0 - cart[k].qty
                 /\ e.barcode = cart[k].barcode
        /\ Len(transactions') = Len(transactions) + 1
        /\ writes'[Len(writes')].by = "append_transaction"
        /\ cart' = <<>>
     ]_vars

\* C5: the transaction of a successful checkout has total = sum of price * qty
\* over the cart lines and change = paid - total.
C5_TransactionTotals ==
    [][(op' = "checkout" /\ FailingLines(cart, CurrentFile) = {}) =>
        /\ Len(transactions') = Len(transactions) + 1
        /\ LET t == transactions'[Len(transactions')]
           IN /\ t.total = SumSeq([k \in 1..Len(cart) |-> cart[k].price * cart[k].qty])
              /\ t.change = t.paid - t.total
              /\ t.paid \in PaidAmounts
     ]_vars

\* C6: adjustStock on a barcode that no catalog entry has returns failure and
\* leaves the catalog, the stock log and the transaction log as they were.
C6_NotFoundChangesNothing ==
    [][op' = "adjust_stock" =>
       \A b \in BarcodeInputs, d \in Deltas, o \in Operators, t \in Types, n \in Notes :
          (AdjustStock(b, d, o, t, n) /\ ~Present(b, CurrentFile)) =>
              /\ result' = "not_found"
              /\ UNCHANGED <<products, transactions, stock_log>>
     ]_vars

\* adjustStock has returned not-found on a catalog that has products
C6_Witness ==
    /\ op = "adjust_stock"
    /\ result = "not_found"
    /\ Len(products) > 0
    /\ writes = <<>>

\* C7: adjustStock on a barcode in the catalog succeeds for every delta: the
\* stock becomes before + delta, the catalog is written first, and then one
\* stock-log entry with before, after, delta, type, operator and note.
C7_AdjustStockLogs ==
    [][op' = "adjust_stock" =>
       \A b \in BarcodeInputs, d \in Deltas, o \in Operators, t \in Types, n \in Notes :
          (AdjustStock(b, d, o, t, n) /\ Present(b, CurrentFile)) =>
              /\ result' = "ok"
              /\ StockOf(NextFile, b) = StockOf(CurrentFile, b) + d
              /\ Len(writes') = 2
              /\ writes'[1].by = "save_products"
              /\ writes'[1].stock_log = Len(stock_log)
              /\ writes'[2].by = "append_stock_log"
              /\ Len(stock_log') = Len(stock_log) + 1
              /\ LET e == stock_log'[Len(stock_log')]
                 IN /\ e.before_stock = StockOf(CurrentFile, b)
                    /\ e.after_stock = StockOf(CurrentFile, b) + d
                    /\ e.change = d
                    /\ e.type = t /\ e.operator = o /\ e.note = n
     ]_vars

\* C8: no two products of the catalog have the same non-empty barcode.
C8_UniqueBarcodes ==
    \A i, j \in 1..Len(products) :
        (i # j /\ products[i].barcode = products[j].barcode) => products[i].barcode = NaN

\* C9: every step leaves the entries that the transaction log and the stock
\* log held as an unmodified prefix of the log.
C9_AppendOnly ==
    [][IsPrefix(transactions, transactions') /\ IsPrefix(stock_log, stock_log')]_vars

\* C10: save leaves the transaction log and the stock log as they were,
\* appendTransaction the catalog and the stock log, appendStockLog the catalog
\* and the transaction log.
C10_FrameOfPersistence ==
    [][/\ op' = "save_products" => (transactions' = transactions /\ stock_log' = stock_log)
       /\ op' = "append_transaction" => (products' = products /\ stock_log' = stock_log)
       /\ op' = "append_stock_log" => (products' = products /\ transactions' = transactions)
     ]_vars

\* C11: addProduct gives the catalog exactly one more product; when the
\* initial stock is > 0 and the barcode is non-empty it appends exactly one
\* in_initial entry with before_stock = 0 and after_stock = change = the
\* initial stock, and otherwise it appends no stock-log entry.
C11_AddProductLogs ==
    [][op' = "add_product" =>
        /\ Len(products') = Len(products) + 1
        /\ LET new == products'[Len(products')]
           IN IF new.stock > 0 /\ new.barcode # NaN
              THEN /\ Len(stock_log') = Len(stock_log) + 1
                   /\ LET e == stock_log'[Len(stock_log')]
                      IN /\ e.type = <<"in_initial">>
                         /\ e.before_stock = 0
                         /\ e.after_stock = new.stock
                         /\ e.change = new.stock
                         /\ astype_str(e.barcode) = new.barcode
              ELSE Len(stock_log') = Len(stock_log)
     ]_vars

\* a product was added with stock and a barcode, and its entry is in the log
C11_Witness ==
    /\ op = "add_product"
    /\ products[Len(products)].stock > 0
    /\ products[Len(products)].barcode # NaN
    /\ Len(stock_log) > 0
    /\ stock_log[Len(stock_log)].type = <<"in_initial">>

\* C12: updateProduct on a barcode that no catalog entry has fails and changes
\* no table; on a barcode in the catalog it persists the new name, price and
\* stock, and appends exactly one adjust_manual entry with
\* change = new stock - prior stock when the stock differs from the prior
\* value, and no entry when it is the same.
C12_UpdateProduct ==
    [][op' = "edit_save" =>
       \A b \in EditBarcodes, nm \in EditNames, p \in EditPrices, s \in EditStocks :
          EditSave(b, nm, p, s) =>
             IF ~Present(b, CurrentFile)
             THEN /\ result' = "not_found"
                  /\ UNCHANGED <<products, transactions, stock_log>>
             ELSE LET i == barcode_index(load_products(CurrentFile), b)[1]
                      before == load_products(CurrentFile)[i].stock
                  IN /\ result' = "ok"
                     /\ load_products(NextFile) =
                            [load_products(CurrentFile) EXCEPT ![i].name = nm,
                                                               ![i].price = p,
                                                               ![i].stock = s]
                     /\ IF s # before
                        THEN /\ Len(stock_log') = Len(stock_log) + 1
                             /\ LET e == stock_log'[Len(stock_log')]
                                IN /\ e.type = <<"adjust_manual">>
                                   /\ e.change = s - before
                                   /\ e.before_stock = before
                                   /\ e.after_stock = s
                        ELSE Len(stock_log') = Len(stock_log)
     ]_vars

\* an edit has changed a stock and logged it
C12_Witness ==
    /\ op = "edit_save"
    /\ result = "ok"
    /\ Len(writes) = 2
    /\ stock_log[Len(stock_log)].type = <<"adjust_manual">>
    /\ stock_log[Len(stock_log)].change # 0

LookupCodes == BarcodeInputs \cup ScanInputs \cup {<<>>, <<" ">>, <<" ", "1">>, <<"1", " ">>}

\* C14: on every reachable catalog and for every input searchByBarcode returns
\* at most one product, whose barcode is the code looked up, and an empty
\* input returns nothing.
C14_BarcodeLookup ==
    \A code \in LookupCodes :
        LET found == search_by_barcode(code, load_products(CurrentFile))
        IN /\ Len(found) <= 1
           /\ \A i \in 1..Len(found) : found[i].barcode = strip(code)
           /\ strip(code) = <<>> => found = <<>>

\* every product added so far was given an empty barcode and is still in
\* the catalog: no barcode was ever given to two products
NoBarcodeGivenTwice ==
    \A n \in 3..(nextId - 1) :
        \E i \in 1..Len(products) : products[i].id = uuid4(n) /\ products[i].barcode = NaN

\* positions of the stock-log entries for a barcode
EntriesFor(barcode) ==
    {k \in 1..Len(stock_log) : astype_str(stock_log[k].barcode) = barcode}

\* C20: when no barcode was ever given to two products, every product with a
\* non-empty barcode and at least one stock-log entry has stock equal to the
\* after_stock of the latest entry for its barcode.
C20_StockMatchesLastLog ==
    NoBarcodeGivenTwice =>
        \A i \in 1..Len(products) :
            LET p == load_products(CurrentFile)[i]
            IN (p.barcode # <<>> /\ EntriesFor(p.barcode) # {}) =>
                  \E k \in EntriesFor(p.barcode) :
                     /\ \A h \in EntriesFor(p.barcode) : h <= k
                     /\ p.stock = stock_log[k].after_stock

\* a name has the query in it, letters compared without case; a blank name
\* has no text in it
HasSubstring(name, q) ==
    /\ name # NaN
    /\ \E i \in 1..(Len(name) - Len(q) + 1) : lower(SubSeq(name, i, i + Len(q) - 1)) = lower(q)

\* C15: searchByName never returns more than limit products, on the substring
\* path and on the fuzzy path, also when several products share a name.
C15_AtMostLimit ==
    [][(op' = "search_by_name" /\ result' = "ok") => Len(lookup'.rows) <= lookup'.limit]_vars

\* C16: searchByName returns nothing for an empty query; with one or more
\* products whose name has the query in it, it returns those, in catalog
\* order, up to limit; with none and no fuzzy capability it returns nothing;
\* with none and the capability it returns the products a ranking of the
\* names puts first; and it does not fail.
C16_SubstringThenFuzzy ==
    [][op' = "search_by_name" =>
        LET q == strip(astype_str(lookup'.query))
            df == load_products(CurrentFile)
            subs == SelectSeq(df, LAMBDA p : HasSubstring(p.name, q))
        IN /\ result' = "ok"
           /\ IF q = <<>> THEN lookup'.rows = <<>>
              ELSE IF Len(subs) >= 1 THEN lookup'.rows = head(subs, lookup'.limit)
              ELSE IF ~RAPIDFUZZ_AVAILABLE THEN lookup'.rows = <<>>
              ELSE \E r \in Rankings(Len(df)) :
                      lookup'.rows = SelectSeq(df,
                          LAMBDA p : p.name \in fuzzy_names(df, r, lookup'.limit))
     ]_vars

\* C18: a catalog written with save and read back with load has, for every
\* product, the id, barcode, name, price, stock and expiry_date it was given.
C18_RoundTrip ==
    [][op' = "save_products" =>
       \A df \in StoreCatalogs :
          SaveProducts(df) =>
             /\ Len(load_products(NextFile)) = Len(df)
             /\ \A i \in 1..Len(df) :
                   LET back == load_products(NextFile)[i]
                   IN /\ back.id = df[i].id
                      /\ back.barcode = df[i].barcode
                      /\ back.name = df[i].name
                      /\ back.price = df[i].price
                      /\ back.stock = df[i].stock
                      /\ "expiry_date" \in DOMAIN df[i] => back.expiry_date = df[i].expiry_date
     ]_vars

\* the tables of the workbook can all be read
Readable(f) ==
    /\ f.products \notin {Unreadable, Missing}
    /\ f.transactions \notin {Unreadable, Missing}
    /\ f.stock_log \notin {Unreadable, Missing}

\* C19: a read that fails is not propagated: load returns the empty catalog
\* for a products sheet that cannot be read, and save, appendTransaction and
\* appendStockLog finish, with the empty table in the place of a transaction
\* log or stock log that cannot be read.
C19_ReadFailureContained ==
    [][op' \in {"load_products", "save_products", "append_transaction", "append_stock_log"} =>
        /\ result' = "ok"
        /\ (op' = "load_products" /\ products = Unreadable) => lookup'.rows = <<>>
        /\ op' # "load_products" => Readable(NextFile)
        /\ (op' \in {"save_products", "append_stock_log"}
               /\ transactions \in {Unreadable, Missing}) => transactions' = <<>>
        /\ (op' \in {"save_products", "append_transaction"}
               /\ stock_log \in {Unreadable, Missing}) => stock_log' = <<>>
        /\ (op' = "append_transaction" /\ transactions \in {Unreadable, Missing})
               => Len(transactions') = 1
        /\ (op' = "append_stock_log" /\ stock_log \in {Unreadable, Missing})
               => Len(stock_log') = 1
     ]_vars

\* load has been called on a workbook that cannot be read and has returned
\* the empty catalog
C19_Witness ==
    /\ op = "load_products"
    /\ products = Unreadable
    /\ lookup.rows = <<>>

\* C17: nothing orders the steps of two callers, and a write puts back, for
\* every product but the writer's own, the stock the writer read, whatever
\* the workbook holds at the time of the write; so the change another caller
\* has persisted in between is taken back.
C17_WriteTakesBackOthers ==
    [][\A c \in Callers :
          (callers[c].pc \in {"save_write", "log_write"} /\ callers'[c].pc # callers[c].pc) =>
             /\ Len(products') = Len(callers[c].df)
             /\ \A i \in 1..Len(products') : products'[i].stock = callers[c].df[i].stock
             /\ Len(stock_log') = Len(callers[c].log)
     ]_vars

\* both callers have changed the stock of a product of their own and have
\* finished with success, and the workbook has the later writer's change and
\* entry only: the other caller's stock is what it was, and the log has one
\* entry
C17_Witness ==
    /\ \A c \in Callers : callers[c].pc = "done"
    /\ \A c \in Callers : callers[c].before_stock # callers[c].stock2
    /\ callers[1].barcode # callers[2].barcode
    /\ \E c \in Callers :
          StockOf(CurrentFile, callers[c].barcode) = callers[c].before_stock
    /\ Len(stock_log) = 1

\* C21: when a checkout has left the cart because a line fails, checkout on
\* the same cart keeps the cart and appends no transaction, and for every line
\* that is in the catalog it takes the quantity from the stock once more and
\* writes one more sale entry to the stock log.
C21_SecondCheckout ==
    [][(op = "checkout" /\ op' = "checkout" /\ FailingLines(cart, CurrentFile) # {}) =>
        /\ cart' = cart
        /\ transactions' = transactions
        /\ \A k \in (1..Len(cart)) \ FailingLines(cart, CurrentFile) :
              /\ StockOf(NextFile, cart[k].barcode)
                    = StockOf(CurrentFile, cart[k].barcode) - cart[k].qty
              /\ \E n \in (Len(stock_log) + 1)..Len(stock_log') :
                    /\ stock_log'[n].type = <<"sale">>
                    /\ stock_log'[n].barcode = cart[k].barcode
                    /\ stock_log'[n].change = 0 - cart[k].qty
     ]_vars

\* C22: when the read of a table fails inside save_products,
\* append_transaction or append_stock_log, the write that follows persists the
\* empty table that stood in for it: of the transactions, of the stock log or
\* of the catalog nothing is left but the record the function appends.
C22_FailedReadErases ==
    [][(result' \in ReadFaults /\ op' \in {"save_products", "append_transaction", "append_stock_log"}) =>
        /\ result' \in {"corrupt", "no_transactions"} =>
              Len(transactions') = IF op' = "append_transaction" THEN 1 ELSE 0
        /\ result' \in {"corrupt", "no_stock_log"} =>
              Len(stock_log') = IF op' = "append_stock_log" THEN 1 ELSE 0
        /\ (result' = "corrupt" /\ op' # "save_products") => products' = <<>>
     ]_vars

\* the workbook held transactions and stock-log entries when save_products
\* was called, none of them could be read, and both tables are now empty
C22_Witness ==
    /\ op = "save_products"
    /\ result = "corrupt"
    /\ Len(writes) = 2
    /\ writes[1].transactions > 0
    /\ writes[1].stock_log > 0
    /\ transactions = <<>>
    /\ stock_log = <<>>

====
